---- MODULE Spec2Model ----
(***************************************************************************)
(* Model of src/lib/client.svelte.ts: the reactive hooks useQuery and      *)
(* usePaginatedQuery over a ConvexClient.                                  *)
(*                                                                         *)
(* The ConvexClient is the environment: it keeps the listeners registered  *)
(* with onUpdate, a local result per query token, and calls the listeners' *)
(* callbacks when the server sends a transition.  The Svelte runtime runs  *)
(* pending effects in a microtask, that is before the client's next        *)
(* callback: while effects are pending the client does not act.            *)
(***************************************************************************)
EXTENDS Integers, Sequences, FiniteSets, TLC

VARIABLES
    clientDisabled,  \* client.disabled
    listeners,       \* the client's registrations (onUpdate not yet unsubscribed)
    localResult,     \* client.client.localQueryResult, per args of the useQuery query
    args,            \* useQuery: the current value of the reactive args
    options,         \* useQuery: the current value of the reactive options
    state,           \* useQuery: the $state object
    initialArgs,     \* useQuery: const initialArgs
    cleanup,         \* useQuery: the teardown the subscription effect returned
    effectsDirty,    \* useQuery: the effects are scheduled and have not run yet
    destroyed,       \* useQuery: the component was destroyed
    hist,            \* useQuery: the last callback the client made (history)
    pgArgs,          \* usePaginatedQuery: the current value of the reactive args
    initialData,     \* usePaginatedQuery: options.initialData
    nextCursor,      \* usePaginatedQuery: let nextCursor
    pages,           \* usePaginatedQuery: const pages
    pagesLoading,    \* usePaginatedQuery: const pagesLoading
    isDone,          \* usePaginatedQuery: let isDone
    error,           \* usePaginatedQuery: let error
    subscriptions,   \* usePaginatedQuery: const subscriptions (page key -> unsubscribe)
    isFirstRender,   \* usePaginatedQuery: let isFirstRender
    pgDirty,         \* usePaginatedQuery: the effect is scheduled and has not run yet
    pgDestroyed,     \* usePaginatedQuery: the component was destroyed
    pageOrigin,      \* history: for each page of pages, the cursor it was asked with
    pgHist,          \* history: the last loadMore and the last delivery
    BROWSER,         \* esm-env: running in a browser
    context,         \* the component context's value under _contextKey
    clients,         \* the ConvexClients that setupConvex constructed
    ctxDestroyed,    \* the component that called setupConvex was destroyed
    call             \* history: the last call of the context functions and hooks

cvars == <<clientDisabled, listeners, localResult>>

qvars == <<args, options, state, initialArgs, cleanup, effectsDirty, destroyed, hist>>

pvars == <<pgArgs, initialData, nextCursor, pages, pagesLoading, isDone, error,
           subscriptions, isFirstRender, pgDirty, pgDestroyed, pageOrigin, pgHist>>

xvars == <<BROWSER, context, clients, ctxDestroyed, call>>

vars == <<cvars, qvars, pvars, xvars>>

----------------------------------------------------------------------------
(* Bounds *)

NumArgs == 2        \* distinct args objects the component passes
MaxListeners == 2   \* registrations the client holds at once
MaxItems == 2       \* items of the paginated query; a cursor lies after each
MaxClients == 2     \* calls of setupConvex that construct a client

----------------------------------------------------------------------------
(* JavaScript values *)

Undefined == "undefined"

FalsyValues == {"0", "false", "", "null"}

TruthyValues == {"1", "2"}

JsonValues == FalsyValues \cup TruthyValues

\* the results the server sends for the query
ServerValues == {"0", "1"}

ErrorValues == {"ConvexError", "Error"}

\* x instanceof Error
IsError(x) == x \in ErrorValues

\* !!x : undefined, 0, false, "" and null are falsy; objects (errors) are truthy
Truthy(x) == x \in TruthyValues \cup ErrorValues

\* structuredClone(x): a deep copy is equal by value; an Error subclass is
\* copied as a plain Error
StructuredClone(x) == IF x = "ConvexError" THEN "Error" ELSE x

Args == 1..NumArgs

NoArgs == 0

\* JSON.stringify(convexToJson(a))
ArgsKey(a) == <<"json", a>>

NoCursor == "none"

NoOp == 0

EnabledChoices == {"omitted", "true", "false", "fn_true", "fn_false"}

----------------------------------------------------------------------------
(* Paginated results *)

Null == "null"

\* the continueCursor of a page that ends after item k
Cursor(k) == "c" \o ToString(k)

Cursors == {Cursor(k) : k \in 1..MaxItems}

\* the position a cursor stands for; null is the start
Pos(c) == IF c = Null THEN 0 ELSE CHOOSE k \in 1..MaxItems : Cursor(k) = c

\* const pageKey = cursor ?? 'initial'
PageKey(c) == IF c = Null THEN "initial" ELSE c

PageKeys == {"initial"} \cup Cursors

\* The PaginationResult the server computes for a page asked with cursor c
\* that ends after item e: its items, its continueCursor, and isDone when
\* it reaches the last item.
ServerPage(c, e) ==
    [page |-> [i \in 1..(e - Pos(c)) |-> Pos(c) + i],
     continueCursor |-> Cursor(e),
     isDone |-> (e = MaxItems)]

\* options.initialData omitted
NoInitialData == [page |-> <<>>, continueCursor |-> Undefined, isDone |-> FALSE]

\* the first page as loaded ahead of the hook (cursor null)
InitialDataChoices ==
    {NoInitialData} \cup {ServerPage(Null, e) : e \in 1..MaxItems}

\* values of pagesLoading[key]; Absent: the object has no such key
Absent == "absent"

\* a Map or object with no keys
EmptyMap(v) == [k \in PageKeys |-> v]

\* History of usePaginatedQuery.  Of the last step: op ("loadMore": a loadMore
\* at CanLoadMore, "lmData": the delivery to its registration, "rerun": the
\* effect ran after a change of args), and for "lmData" the page delivered
\* and the results before it.  Kept over the steps: pending (the
\* registration of the loadMore made at CanLoadMore), first (the first page
\* of the current args was delivered since the effect ran), untouched (since
\* the mount no callback was made and the args did not change), lastError
\* (the error a callback received last since the effect ran).
NoPgHist ==
    [op |-> "none", pending |-> NoOp, prevResults |-> <<>>, page |-> NoInitialData,
     first |-> FALSE, untouched |-> FALSE, lastError |-> Undefined]

\* no usePaginatedQuery in the component
PgUnused ==
    /\ pgArgs = 1
    /\ initialData = NoInitialData
    /\ nextCursor = Null
    /\ pages = <<>>
    /\ pagesLoading = EmptyMap(Absent)
    /\ isDone = FALSE
    /\ error = Undefined
    /\ subscriptions = EmptyMap(NoOp)
    /\ isFirstRender = TRUE
    /\ pgDirty = FALSE
    /\ pgDestroyed = TRUE
    /\ pageOrigin = <<>>
    /\ pgHist = NoPgHist

----------------------------------------------------------------------------
(* The client *)

ListenerIds == 1..MaxListeners

\* the id of the next registration
FreeId(ls) ==
    CHOOSE i \in ListenerIds : (\A l \in ls : l.id # i)
                               /\ (\A j \in 1..(i - 1) : \E l \in ls : l.id = j)

\* client.onUpdate(query, a, ...) with no paginationOpts
OnUpdate(ls, a) == ls \cup {[id |-> FreeId(ls), args |-> a, cursor |-> NoCursor]}

\* the unsubscribe function of registration c (NoOp: () => {})
Unsubscribe(ls, c) == {l \in ls : l.id # c}

\* localQueryResult(name, a); a thrown Error is caught and becomes the value
LocalQueryResult(a) == localResult[a]

----------------------------------------------------------------------------
(* The component context *)

\* getContext(_contextKey) when no client was placed in the context: undefined
NoClient == 0

\* a client the caller constructed and passes to setConvexClientContext
GivenClient == MaxClients + 1

NoError == "none"

NoClientError ==
    "No ConvexClient was found in Svelte context. Did you forget to call setupConvex() in a parent component?"

UrlError == "Expected string url property for setupConvex"

QueryError == "Query must be a functionReference object, not a string"

NoUrl == [type |-> "undefined", text |-> ""]

\* history: no call was made yet
NoCall ==
    [fn |-> "none", thrown |-> NoError, returned |-> NoClient, url |-> NoUrl,
     option |-> "omitted", clientsBefore |-> 0, contextBefore |-> NoClient]

\* the hooks' client was placed in the context by a parent component
ContextGiven ==
    /\ BROWSER = TRUE
    /\ context = GivenClient
    /\ clients = <<>>
    /\ ctxDestroyed = FALSE
    /\ call = NoCall

----------------------------------------------------------------------------
(* useQuery *)

\* parseOptions that does not call an enabled given as a function (a function
\* object is truthy)
ParseOptionsNoCall(o) ==
    [initialData |-> o.initialData,
     keepPreviousData |-> o.keepPreviousData,
     enabled |-> IF o.enabled # "omitted"
                 THEN o.enabled \in {"true", "fn_true", "fn_false"}
                 ELSE TRUE]

\* parseOptions: enabled resolved to a boolean
ParseOptions(o) ==
    [initialData |-> o.initialData,
     keepPreviousData |-> o.keepPreviousData,
     enabled |-> IF o.enabled # "omitted"
                 THEN (IF o.enabled \in {"fn_true", "fn_false"}
                       THEN o.enabled = "fn_true"
                       ELSE o.enabled = "true")
                 ELSE TRUE]

SameArgsAsLastResult ==
    state.argsForLastResult # NoArgs
    /\ ArgsKey(state.argsForLastResult) = ArgsKey(args)

StaleAllowed ==
    ParseOptions(options).keepPreviousData /\ Truthy(state.lastResult)

SyncResult ==
    IF Truthy(ParseOptions(options).initialData) /\ ~state.haveArgsEverChanged
    THEN state.result
    ELSE IF clientDisabled THEN Undefined ELSE LocalQueryResult(args)

Result ==
    IF SyncResult # Undefined THEN SyncResult
    ELSE IF StaleAllowed THEN state.lastResult ELSE Undefined

\* isStale that does not look at the local result
IsStaleIgnoringSyncResult == StaleAllowed /\ ~SameArgsAsLastResult /\ Result # Undefined

IsStale ==
    SyncResult = Undefined /\ StaleAllowed /\ ~SameArgsAsLastResult
    /\ Result # Undefined

\* data that does not filter an Error out
DataUnfiltered == Result

Data == IF IsError(Result) THEN Undefined ELSE Result

Error == IF IsError(Result) THEN Result ELSE Undefined

\* isLoading that does not look at enabled
IsLoadingIgnoringEnabled == Error = Undefined /\ Data = Undefined

IsLoading ==
    IF ~ParseOptions(options).enabled THEN FALSE
    ELSE Error = Undefined /\ Data = Undefined

\* the callbacks given to client.onUpdate, for a registration made with args a
OnData(s, a, v) ==
    [s EXCEPT !.result = StructuredClone(v),
              !.argsForLastResult = a,
              !.lastResult = StructuredClone(v)]

OnError(s, a, e) ==
    [s EXCEPT !.result = e,
              !.argsForLastResult = a,
              !.lastResult = StructuredClone(e)]

Callback(s, a, r) == IF IsError(r) THEN OnError(s, a, r) ELSE OnData(s, a, r)

\* a subscription effect that returns no teardown
EffectCleanupNoop(id) == NoOp

\* the teardown the subscription effect returns: the registration's unsubscribe
EffectCleanup(id) == id

\* the second effect: once args change, move off of initialData
MoveOffInitialData(s) ==
    IF ~s.haveArgsEverChanged /\ ArgsKey(args) # ArgsKey(initialArgs)
    THEN IF ParseOptions(options).initialData # Undefined
         THEN [s EXCEPT !.haveArgsEverChanged = TRUE,
                        !.argsForLastResult = initialArgs,
                        !.lastResult = ParseOptions(options).initialData]
         ELSE [s EXCEPT !.haveArgsEverChanged = TRUE]
    ELSE s

\* History: the last result a callback received (args, value), whether the
\* last step was that callback (op), the error shown before it (prevError),
\* and the args that the value now kept as the last result was received for
\* (lastFor): those of the callback, or the initial args for initialData.
NoHist ==
    [op |-> "none", args |-> NoArgs, value |-> Undefined, prevError |-> Undefined,
     lastFor |-> NoArgs]

\* the second effect keeps initialData as the last result
KeepsInitialData ==
    /\ ~state.haveArgsEverChanged
    /\ ArgsKey(args) # ArgsKey(initialArgs)
    /\ options.initialData # Undefined

Quiet(h) == [h EXCEPT !.op = "none", !.prevError = Undefined]

Init ==
    /\ clientDisabled \in BOOLEAN
    /\ listeners = {}
    /\ localResult = [a \in Args |-> Undefined]
    /\ args \in Args
    /\ initialArgs = args
    /\ options \in [initialData : {Undefined} \cup JsonValues,
                    keepPreviousData : BOOLEAN,
                    enabled : EnabledChoices]
    /\ state = [result |-> options.initialData,
                argsForLastResult |-> NoArgs,
                lastResult |-> Undefined,
                haveArgsEverChanged |-> FALSE]
    /\ cleanup = NoOp
    /\ effectsDirty = TRUE
    /\ destroyed = FALSE
    /\ hist = NoHist
    /\ PgUnused
    /\ ContextGiven

\* the reactive args take another value
ChangeArgs(a) ==
    /\ ~destroyed
    /\ a # args
    /\ args' = a
    /\ effectsDirty' = TRUE
    /\ hist' = Quiet(hist)
    /\ UNCHANGED <<clientDisabled, listeners, localResult, options, state,
                   initialArgs, cleanup, destroyed>>
    /\ UNCHANGED <<pvars, xvars>>

\* the reactive options take another value (initialData stays the caller's)
ChangeOptions(k, e) ==
    /\ ~destroyed
    /\ <<k, e>> # <<options.keepPreviousData, options.enabled>>
    /\ options' = [options EXCEPT !.keepPreviousData = k, !.enabled = e]
    /\ effectsDirty' = TRUE
    /\ hist' = Quiet(hist)
    /\ UNCHANGED <<clientDisabled, listeners, localResult, args, state,
                   initialArgs, cleanup, destroyed>>
    /\ UNCHANGED <<pvars, xvars>>

\* The pending effects run: the subscription effect (its teardown first) and
\* then the effect that moves off of initialData.
RunEffects ==
    /\ effectsDirty
    /\ ~destroyed
    /\ LET torn == Unsubscribe(listeners, cleanup)
       IN  IF ParseOptions(options).enabled
           THEN /\ Cardinality(torn) < MaxListeners
                /\ listeners' = OnUpdate(torn, args)
                /\ cleanup' = EffectCleanup(FreeId(torn))
           ELSE /\ listeners' = torn
                /\ cleanup' = NoOp
    /\ state' = MoveOffInitialData(state)
    /\ effectsDirty' = FALSE
    /\ hist' = IF KeepsInitialData
               THEN [Quiet(hist) EXCEPT !.lastFor = initialArgs]
               ELSE Quiet(hist)
    /\ UNCHANGED <<clientDisabled, localResult, args, options, initialArgs, destroyed>>
    /\ UNCHANGED <<pvars, xvars>>

\* The server sends a transition with result r for the query with args a: the
\* client stores it and calls the callbacks of the registrations for a.
ServerUpdate(a, r) ==
    /\ ~effectsDirty
    /\ ~clientDisabled
    /\ \E l \in listeners : l.args = a
    /\ localResult' = [localResult EXCEPT ![a] = r]
    /\ state' = Callback(state, a, r)
    /\ hist' = [op |-> "update", args |-> a, value |-> r, prevError |-> Error,
                lastFor |-> a]
    /\ UNCHANGED <<clientDisabled, listeners, args, options, initialArgs,
                   cleanup, effectsDirty, destroyed>>
    /\ UNCHANGED <<pvars, xvars>>

\* The client drops the result of a query nobody is subscribed to any more.
ClientForget(a) ==
    /\ ~effectsDirty
    /\ ~(\E l \in listeners : l.args = a)
    /\ localResult[a] # Undefined
    /\ localResult' = [localResult EXCEPT ![a] = Undefined]
    /\ hist' = Quiet(hist)
    /\ UNCHANGED <<clientDisabled, listeners, args, options, state, initialArgs,
                   cleanup, effectsDirty, destroyed>>
    /\ UNCHANGED <<pvars, xvars>>

\* The component is destroyed: the effect's teardown runs.
Destroy ==
    /\ ~destroyed
    /\ ~effectsDirty
    /\ listeners' = Unsubscribe(listeners, cleanup)
    /\ cleanup' = NoOp
    /\ destroyed' = TRUE
    /\ hist' = Quiet(hist)
    /\ UNCHANGED <<clientDisabled, localResult, args, options, state, initialArgs,
                   effectsDirty>>
    /\ UNCHANGED <<pvars, xvars>>

Next ==
    \/ \E a \in Args : ChangeArgs(a)
    \/ \E k \in BOOLEAN, e \in EnabledChoices : ChangeOptions(k, e)
    \/ RunEffects
    \/ \E a \in Args, r \in ServerValues \cup ErrorValues : ServerUpdate(a, r)
    \/ \E a \in Args : ClientForget(a)
    \/ Destroy

Spec == Init /\ [][Next]_vars

----------------------------------------------------------------------------
(* usePaginatedQuery *)

HasInitialData == initialData # NoInitialData

\* no useQuery in the component
QUnused ==
    /\ args = 1
    /\ initialArgs = 1
    /\ options = [initialData |-> Undefined, keepPreviousData |-> FALSE,
                  enabled |-> "omitted"]
    /\ state = [result |-> Undefined, argsForLastResult |-> NoArgs,
                lastResult |-> Undefined, haveArgsEverChanged |-> FALSE]
    /\ cleanup = NoOp
    /\ effectsDirty = FALSE
    /\ destroyed = TRUE
    /\ hist = NoHist

RECURSIVE FlatMap(_)
FlatMap(ps) == IF ps = <<>> THEN <<>> ELSE Head(ps).page \o FlatMap(Tail(ps))

\* const results = $derived(pages.flatMap(page => page.page))
Results == FlatMap(pages)

Status ==
    IF pagesLoading["initial"] = "true" THEN "LoadingFirstPage"
    ELSE IF \E k \in PageKeys : pagesLoading[k] = "true" THEN "LoadingMore"
    ELSE IF isDone THEN "Exhausted"
    ELSE "CanLoadMore"

\* subscribeToPage: the loading mark (only for a truthy cursor)
MarkLoading(pl, c) == IF c # Null THEN [pl EXCEPT ![PageKey(c)] = "true"] ELSE pl

\* subscribeToPage: client.onUpdate(query, {...args, paginationOpts: {numItems, cursor}})
OnUpdatePage(ls, a, c) == ls \cup {[id |-> FreeId(ls), args |-> a, cursor |-> c]}

\* subscribeToPage: subscriptions.set(pageKey, unsubscribe)
Track(subs, c, id) == [subs EXCEPT ![PageKey(c)] = id]

\* subscriptions.forEach(unsubscribe => unsubscribe())
UnsubscribeAll(ls, subs) == {l \in ls : \A k \in PageKeys : subs[k] # l.id}

\* pages.findIndex(page => page.continueCursor === cc)
FindIndex(ps, cc) ==
    IF \E i \in 1..Len(ps) : ps[i].continueCursor = cc
    THEN CHOOSE i \in 1..Len(ps) :
             /\ ps[i].continueCursor = cc
             /\ \A j \in 1..(i - 1) : ps[j].continueCursor # cc
    ELSE -1

\* the data callback of subscribeToPage, on pages
PagesOnData(ps, d) ==
    LET pageIndex == FindIndex(ps, d.continueCursor)
    IN  IF pageIndex = -1 THEN Append(ps, d)
        ELSE IF ps[pageIndex] # d THEN [ps EXCEPT ![pageIndex] = d]
        ELSE ps

\* history: the cursor each page of the list was asked with
OriginOnData(os, ps, d, c) ==
    LET pageIndex == FindIndex(ps, d.continueCursor)
    IN  IF pageIndex = -1 THEN Append(os, c)
        ELSE IF ps[pageIndex] # d THEN [os EXCEPT ![pageIndex] = c]
        ELSE os

\* an effect that uses initialData on every run
UseInitialDataAlways == HasInitialData

\* the effect: if (isFirstRender && initialData)
UseInitialData == isFirstRender /\ HasInitialData

PgQuiet(h) ==
    [NoPgHist EXCEPT !.pending = h.pending, !.first = h.first,
                     !.untouched = h.untouched, !.lastError = h.lastError]

\* the error callback of subscribeToPage that drops the error
PageOnErrorDropped(err, e) == err

\* the error callback of subscribeToPage, on error
PageOnError(err, e) == e

InitPaginated ==
    /\ clientDisabled = FALSE
    /\ listeners = {}
    /\ localResult = [a \in Args |-> Undefined]
    /\ QUnused
    /\ ContextGiven
    /\ pgArgs \in Args
    /\ initialData \in InitialDataChoices
    /\ nextCursor = IF HasInitialData THEN initialData.continueCursor ELSE Null
    /\ pages = IF HasInitialData THEN <<initialData>> ELSE <<>>
    /\ pagesLoading = [EmptyMap(Absent) EXCEPT
                          !["initial"] = IF HasInitialData THEN "false" ELSE "true"]
    /\ isDone = (HasInitialData /\ initialData.isDone)
    /\ error = Undefined
    /\ subscriptions = EmptyMap(NoOp)
    /\ isFirstRender = TRUE
    /\ pgDirty = TRUE
    /\ pgDestroyed = FALSE
    /\ pageOrigin = IF HasInitialData THEN <<"initialData">> ELSE <<>>
    /\ pgHist = [NoPgHist EXCEPT !.untouched = TRUE]

\* the reactive args take another value
PgChangeArgs(a) ==
    /\ ~pgDestroyed
    /\ a # pgArgs
    /\ pgArgs' = a
    /\ pgDirty' = TRUE
    /\ pgHist' = [PgQuiet(pgHist) EXCEPT !.pending = NoOp, !.untouched = FALSE]
    /\ UNCHANGED <<cvars, qvars, xvars, initialData, nextCursor, pages, pagesLoading, isDone,
                   error, subscriptions, isFirstRender, pgDestroyed, pageOrigin>>

\* The effect runs (its teardown first): every tracked subscription is
\* unsubscribed, the state is reset and the first page is subscribed to.
PgRunEffect ==
    /\ pgDirty
    /\ ~pgDestroyed
    /\ LET torn == UnsubscribeAll(listeners, subscriptions)
       IN  /\ Cardinality(torn) < MaxListeners
           /\ listeners' = OnUpdatePage(torn, pgArgs, Null)
           /\ subscriptions' = Track(EmptyMap(NoOp), Null, FreeId(torn))
    /\ IF UseInitialData
       THEN /\ nextCursor' = initialData.continueCursor
            /\ pages' = <<initialData>>
            /\ pageOrigin' = <<"initialData">>
            /\ pagesLoading' = MarkLoading([EmptyMap(Absent) EXCEPT !["initial"] = "false"], Null)
            /\ isDone' = initialData.isDone
       ELSE /\ nextCursor' = Null
            /\ pages' = <<>>
            /\ pageOrigin' = <<>>
            /\ pagesLoading' = MarkLoading([EmptyMap(Absent) EXCEPT !["initial"] = "true"], Null)
            /\ isDone' = FALSE
    /\ error' = Undefined
    /\ isFirstRender' = FALSE
    /\ pgDirty' = FALSE
    /\ pgHist' = [NoPgHist EXCEPT !.op = IF isFirstRender THEN "none" ELSE "rerun",
                                  !.untouched = pgHist.untouched]
    /\ UNCHANGED <<clientDisabled, localResult, qvars, xvars, pgArgs, initialData, pgDestroyed>>

\* loadMore: subscribeToPage(nextCursor, parseArgs(args))
LoadMore ==
    /\ ~pgDirty
    /\ ~pgDestroyed
    /\ Cardinality(listeners) < MaxListeners
    /\ pagesLoading' = MarkLoading(pagesLoading, nextCursor)
    /\ listeners' = OnUpdatePage(listeners, pgArgs, nextCursor)
    /\ subscriptions' = Track(subscriptions, nextCursor, FreeId(listeners))
    /\ pgHist' = IF Status = "CanLoadMore"
                 THEN [PgQuiet(pgHist) EXCEPT !.op = "loadMore",
                                              !.pending = FreeId(listeners)]
                 ELSE PgQuiet(pgHist)
    /\ UNCHANGED <<clientDisabled, localResult, qvars, xvars, pgArgs, initialData, nextCursor,
                   pages, isDone, error, isFirstRender, pgDirty, pgDestroyed, pageOrigin>>

\* The server sends the page asked with args a and cursor c, ending after item
\* e (every page holds at least one item): the client calls the data callback
\* of the registrations for it.
PgServerData(a, c, e) ==
    /\ ~pgDirty
    /\ \E l \in listeners : l.args = a /\ l.cursor = c
    /\ e > Pos(c)
    /\ LET data == ServerPage(c, e)
       IN  /\ pagesLoading' = [pagesLoading EXCEPT ![PageKey(c)] = "false"]
           /\ pages' = PagesOnData(pages, data)
           /\ pageOrigin' = OriginOnData(pageOrigin, pages, data, c)
           /\ nextCursor' = data.continueCursor
           /\ isDone' = data.isDone
           /\ pgHist' = LET h == [PgQuiet(pgHist) EXCEPT
                                      !.first = @ \/ (a = pgArgs /\ c = Null),
                                      !.untouched = FALSE]
                        IN  IF \E l \in listeners :
                                  l.args = a /\ l.cursor = c /\ l.id = pgHist.pending
                            THEN [h EXCEPT !.op = "lmData", !.pending = NoOp,
                                           !.prevResults = Results, !.page = data]
                            ELSE h
    /\ UNCHANGED <<cvars, qvars, xvars, pgArgs, initialData, error, subscriptions,
                   isFirstRender, pgDirty, pgDestroyed>>

\* The server answers the page asked with args a and cursor c with an error:
\* the client calls the error callback of the registrations for it.
PgServerError(a, c, e) ==
    /\ ~pgDirty
    /\ \E l \in listeners : l.args = a /\ l.cursor = c
    /\ error' = PageOnError(error, e)
    /\ pgHist' = [PgQuiet(pgHist) EXCEPT !.lastError = e, !.untouched = FALSE]
    /\ UNCHANGED <<cvars, qvars, xvars, pgArgs, initialData, nextCursor, pages, pagesLoading,
                   isDone, subscriptions, isFirstRender, pgDirty, pgDestroyed, pageOrigin>>

\* The component is destroyed: the effect's teardown runs.
PgDestroy ==
    /\ ~pgDestroyed
    /\ ~pgDirty
    /\ listeners' = UnsubscribeAll(listeners, subscriptions)
    /\ subscriptions' = EmptyMap(NoOp)
    /\ pgDestroyed' = TRUE
    /\ pgHist' = [PgQuiet(pgHist) EXCEPT !.pending = NoOp]
    /\ UNCHANGED <<clientDisabled, localResult, qvars, xvars, pgArgs, initialData, nextCursor,
                   pages, pagesLoading, isDone, error, isFirstRender, pgDirty, pageOrigin>>

NextPaginated ==
    \/ \E a \in Args : PgChangeArgs(a)
    \/ PgRunEffect
    \/ LoadMore
    \/ \E a \in Args, c \in {Null} \cup Cursors, e \in 1..MaxItems :
           PgServerData(a, c, e)
    \/ \E a \in Args, c \in {Null} \cup Cursors, e \in ErrorValues : PgServerError(a, c, e)
    \/ PgDestroy

SpecPaginated == InitPaginated /\ [][NextPaginated]_vars

\* the client answers the page subscriptions for args a and cursor c, with a
\* data callback or with an error callback
PgAnswer(a, c) ==
    \/ \E e \in 1..MaxItems : PgServerData(a, c, e)
    \/ \E e \in ErrorValues : PgServerError(a, c, e)

\* Pending effects always run (the runtime flushes them in a microtask), and
\* the client goes on answering every page subscription that stays
\* registered.
SpecPaginatedFair ==
    /\ SpecPaginated
    /\ WF_vars(PgRunEffect)
    /\ \A a \in Args : \A c \in {Null} \cup Cursors : SF_vars(PgAnswer(a, c))

----------------------------------------------------------------------------
(* useConvexClient, setConvexClientContext, setupConvex *)

\* the values a caller may pass as url
UrlChoices ==
    {[type |-> "string", text |-> ""],
     [type |-> "string", text |-> "https://a.convex.cloud"],
     [type |-> "string", text |-> "https://b.convex.cloud"],
     [type |-> "undefined", text |-> ""],
     [type |-> "number", text |-> "0"],
     [type |-> "number", text |-> "1"],
     [type |-> "object", text |-> "url"]}

\* !!url
UrlTruthy(u) ==
    CASE u.type = "string" -> u.text # ""
      [] u.type = "number" -> u.text # "0"
      [] u.type = "undefined" -> FALSE
      [] OTHER -> TRUE

\* a check of the url that only tests its truthiness
UrlRejectedIfFalsy(u) == ~UrlTruthy(u)

\* if (!url || typeof url !== 'string')
UrlRejected(u) == ~UrlTruthy(u) \/ u.type # "string"

\* options.disabled as the caller passes it
DisabledOptionChoices == {"omitted", "undefined", "true", "false"}

\* defaults that leave disabled out
OptionsWithoutDefaults(o) == IF o = "omitted" THEN "undefined" ELSE o

\* const optionsWithDefaults = { disabled: !BROWSER, ...options }; its disabled
OptionsWithDefaults(o) ==
    IF o = "omitted" THEN (IF BROWSER THEN "false" ELSE "true") ELSE o

\* useConvexClient that returns what getContext returns
UseConvexClientUnchecked(ctx) == [thrown |-> NoError, returned |-> ctx]

\* useConvexClient: the client of the context, or the error thrown
UseConvexClient(ctx) ==
    IF ctx = NoClient
    THEN [thrown |-> NoClientError, returned |-> NoClient]
    ELSE [thrown |-> NoError, returned |-> ctx]

\* setConvexClientContext: setContext(_contextKey, client)
SetConvexClientContext(ctx, c) == c

\* new ConvexClient(url, optionsWithDefaults), with the effect of setupConvex
\* scheduled: teardown is "scheduled" until the effect runs, "armed" once it
\* returned () => client.close(), "done" once that ran
NewClient(u, o) ==
    [url |-> u.text, disabled |-> OptionsWithDefaults(o),
     teardown |-> "scheduled", closed |-> 0]

\* no component, no client in the context
InitContext ==
    /\ clientDisabled = FALSE
    /\ listeners = {}
    /\ localResult = [a \in Args |-> Undefined]
    /\ QUnused
    /\ PgUnused
    /\ BROWSER \in BOOLEAN
    /\ context = NoClient
    /\ clients = <<>>
    /\ ctxDestroyed = FALSE
    /\ call = NoCall

\* the record of a call
Called(fn, thrown, returned, u, o) ==
    [fn |-> fn, thrown |-> thrown, returned |-> returned, url |-> u, option |-> o,
     clientsBefore |-> Len(clients), contextBefore |-> context]

\* setupConvex(u, {disabled: o})
SetupConvex(u, o) ==
    /\ ~ctxDestroyed
    /\ Len(clients) < MaxClients
    /\ IF UrlRejected(u)
       THEN /\ call' = Called("setupConvex", UrlError, NoClient, u, o)
            /\ UNCHANGED <<context, clients>>
       ELSE /\ clients' = Append(clients, NewClient(u, o))
            /\ context' = SetConvexClientContext(context, Len(clients) + 1)
            /\ call' = Called("setupConvex", NoError, NoClient, u, o)
    /\ UNCHANGED <<cvars, qvars, pvars, BROWSER, ctxDestroyed>>

\* setConvexClientContext(c) with a client the caller constructed
SetContext(c) ==
    /\ ~ctxDestroyed
    /\ context' = SetConvexClientContext(context, c)
    /\ call' = Called("setConvexClientContext", NoError, c, NoUrl, "omitted")
    /\ UNCHANGED <<cvars, qvars, pvars, BROWSER, clients, ctxDestroyed>>

\* the effect of setupConvex runs for client i: it returns the teardown
RunSetupEffect(i) ==
    /\ ~ctxDestroyed
    /\ i \in DOMAIN clients
    /\ clients[i].teardown = "scheduled"
    /\ clients' = [clients EXCEPT ![i].teardown = "armed"]
    /\ call' = [call EXCEPT !.fn = "none"]
    /\ UNCHANGED <<cvars, qvars, pvars, BROWSER, context, ctxDestroyed>>

\* a component calls useConvexClient()
CallUseConvexClient ==
    /\ ~ctxDestroyed
    /\ LET r == UseConvexClient(context)
       IN  call' = Called("useConvexClient", r.thrown, r.returned, NoUrl, "omitted")
    /\ UNCHANGED <<cvars, qvars, pvars, BROWSER, context, clients, ctxDestroyed>>

\* the values a caller may pass as query
QueryChoices == {"functionReference", "string"}

\* A component calls useQuery(q, args, {}): the client is looked up first, then
\* the query is checked, and only then the state is made and the effects are
\* scheduled.
MountUseQuery(q) ==
    /\ ~ctxDestroyed
    /\ destroyed
    /\ LET r == UseConvexClient(context)
       IN  IF r.thrown # NoError
           THEN /\ call' = Called("useQuery", r.thrown, NoClient, NoUrl, "omitted")
                /\ UNCHANGED qvars
           ELSE IF q = "string"
           THEN /\ call' = Called("useQuery", QueryError, NoClient, NoUrl, "omitted")
                /\ UNCHANGED qvars
           ELSE /\ call' = Called("useQuery", NoError, r.returned, NoUrl, "omitted")
                /\ args' = 1
                /\ initialArgs' = 1
                /\ options' = [initialData |-> Undefined, keepPreviousData |-> FALSE,
                               enabled |-> "omitted"]
                /\ state' = [result |-> Undefined, argsForLastResult |-> NoArgs,
                             lastResult |-> Undefined, haveArgsEverChanged |-> FALSE]
                /\ cleanup' = NoOp
                /\ effectsDirty' = TRUE
                /\ destroyed' = FALSE
                /\ hist' = NoHist
    /\ UNCHANGED <<cvars, pvars, BROWSER, context, clients, ctxDestroyed>>

\* A component calls usePaginatedQuery(q, args, {}): the client is looked up
\* before the state is made and the effect is scheduled.
MountUsePaginatedQuery ==
    /\ ~ctxDestroyed
    /\ pgDestroyed
    /\ LET r == UseConvexClient(context)
       IN  IF r.thrown # NoError
           THEN /\ call' = Called("usePaginatedQuery", r.thrown, NoClient, NoUrl, "omitted")
                /\ UNCHANGED pvars
           ELSE /\ call' = Called("usePaginatedQuery", NoError, r.returned, NoUrl, "omitted")
                /\ pgArgs' = 1
                /\ initialData' = NoInitialData
                /\ nextCursor' = Null
                /\ pages' = <<>>
                /\ pagesLoading' = [EmptyMap(Absent) EXCEPT !["initial"] = "true"]
                /\ isDone' = FALSE
                /\ error' = Undefined
                /\ subscriptions' = EmptyMap(NoOp)
                /\ isFirstRender' = TRUE
                /\ pgDirty' = TRUE
                /\ pgDestroyed' = FALSE
                /\ pageOrigin' = <<>>
                /\ pgHist' = [NoPgHist EXCEPT !.untouched = TRUE]
    /\ UNCHANGED <<cvars, qvars, BROWSER, context, clients, ctxDestroyed>>

\* The component that called setupConvex is destroyed: the teardowns of its
\* effects run, each calling client.close().
DestroyComponent ==
    /\ ~ctxDestroyed
    /\ \A i \in DOMAIN clients : clients[i].teardown # "scheduled"
    /\ clients' = [i \in DOMAIN clients |->
                      IF clients[i].teardown = "armed"
                      THEN [clients[i] EXCEPT !.teardown = "done", !.closed = @ + 1]
                      ELSE clients[i]]
    /\ ctxDestroyed' = TRUE
    /\ call' = [call EXCEPT !.fn = "none"]
    /\ UNCHANGED <<cvars, qvars, pvars, BROWSER, context>>

NextContext ==
    \/ \E u \in UrlChoices, o \in DisabledOptionChoices : SetupConvex(u, o)
    \/ SetContext(GivenClient)
    \/ \E i \in 1..MaxClients : RunSetupEffect(i)
    \/ CallUseConvexClient
    \/ \E q \in QueryChoices : MountUseQuery(q)
    \/ MountUsePaginatedQuery
    \/ DestroyComponent

SpecContext == InitContext /\ [][NextContext]_vars

----------------------------------------------------------------------------
(* useQuery: properties *)

DisabledChoices == {"false", "fn_false"}

\* what the hook shows: the error if there is one, else the data
Shown == IF Error # Undefined THEN Error ELSE Data

\* C1: the returned object has one of the three shapes of UseQueryReturn:
\* loading (no data, no error, isLoading, not stale), error (no data, an
\* error, not loading) or data (data, no error, not loading).
C1_ReturnShape ==
    \/ Data = Undefined /\ Error = Undefined /\ IsLoading /\ ~IsStale
    \/ Data = Undefined /\ Error # Undefined /\ ~IsLoading
    \/ Data # Undefined /\ Error = Undefined /\ ~IsLoading

\* C2: with keepPreviousData, once a result was received for earlier args and
\* the client has no local result for the current args, the hook is not
\* loading and shows the result received last (an error as received or as its
\* structured copy).
C2_KeepPreviousData ==
    (/\ options.keepPreviousData
     /\ hist.args # NoArgs
     /\ ArgsKey(hist.args) # ArgsKey(args)
     /\ ~clientDisabled
     /\ LocalQueryResult(args) = Undefined)
    => /\ ~IsLoading
       /\ Shown \in {hist.value, StructuredClone(hist.value)}

\* C3: with initialData other than undefined, args that never changed and no
\* server update received yet, data is initialData, and the hook is neither
\* loading nor stale.
C3_InitialData ==
    (/\ options.initialData # Undefined
     /\ args = initialArgs
     /\ ~state.haveArgsEverChanged
     /\ hist.args = NoArgs)
    => /\ Data = options.initialData
       /\ ~IsLoading
       /\ ~IsStale

\* C4: while enabled, once the effect has run the client holds exactly one
\* registration of the hook, it is the one the effect's teardown unsubscribes
\* and its args are the current args; none for earlier args is left.
C4_OneSubscriptionForCurrentArgs ==
    (~effectsDirty /\ ~destroyed /\ options.enabled \notin DisabledChoices)
    => /\ cleanup # NoOp
       /\ listeners = {[id |-> cleanup, args |-> args, cursor |-> NoCursor]}

C4_Witness ==
    /\ ~effectsDirty /\ ~destroyed /\ options.enabled \notin DisabledChoices
    /\ args # initialArgs
    /\ hist.args = initialArgs
    /\ listeners = {[id |-> cleanup, args |-> args, cursor |-> NoCursor]}

\* C5: once the effect has run, enabled false (a boolean or a function
\* returning it) means no registration, and enabled true, a function
\* returning true or enabled omitted means one registration for the current
\* args.
C5_EnabledControlsSubscription ==
    (~effectsDirty /\ ~destroyed)
    => IF options.enabled \in DisabledChoices
       THEN listeners = {} /\ cleanup = NoOp
       ELSE Cardinality(listeners) = 1 /\ \A l \in listeners : l.args = args

C5_Witness ==
    /\ ~effectsDirty /\ ~destroyed
    /\ options.enabled = "fn_false"
    /\ hist.args = args
    /\ listeners = {}

C7_ErrorForwarded ==
    (hist.op = "update" /\ hist.args = args)
    => IF IsError(hist.value)
       THEN Error = hist.value /\ Data = Undefined /\ ~IsLoading
       ELSE Data = hist.value /\ Error = Undefined /\ ~IsLoading

C7_Witness ==
    /\ hist.op = "update" /\ hist.args = args
    /\ ~options.keepPreviousData
    /\ hist.prevError = "ConvexError"
    /\ ~IsError(hist.value)
    /\ Data = hist.value /\ Error = Undefined

\* C19: isStale true implies that keepPreviousData is set, that data or
\* error is defined, that the client has no local result for the current
\* args and that the result kept as the last one, which is then shown, was
\* received for args whose serialized form differs from the current args;
\* isStale is false whenever that result was received for the current args.
C19_IsStale ==
    /\ IsStale
       => /\ options.keepPreviousData
          /\ Data # Undefined \/ Error # Undefined
          /\ LocalQueryResult(args) = Undefined
          /\ Shown = state.lastResult
          /\ hist.lastFor # NoArgs
          /\ ArgsKey(hist.lastFor) # ArgsKey(args)
    /\ (hist.lastFor # NoArgs /\ ArgsKey(hist.lastFor) = ArgsKey(args)) => ~IsStale

C19_Witness ==
    /\ IsStale
    /\ ~effectsDirty /\ ~destroyed
    /\ hist.args # NoArgs /\ hist.args # args
    /\ hist.lastFor = hist.args
    /\ Error = "Error"

----------------------------------------------------------------------------
(* usePaginatedQuery: properties *)

\* C8: the page list holds at most one page per page subscription, that is
\* per cursor the page was asked with: a push for a page already in the list
\* updates it in place, whatever continueCursor the push carries.
C8_OnePagePerStartCursor ==
    \A i, j \in 1..Len(pageOrigin) : pageOrigin[i] = pageOrigin[j] => i = j

\* C9: after the cleanup made on an args change or on destroy, no
\* subscription the hook created for the old args is still registered.
C9_AllUnsubscribedAfterCleanup ==
    /\ pgDestroyed => listeners = {}
    /\ (~pgDirty /\ ~pgDestroyed) => \A l \in listeners : l.args = pgArgs

\* C10: a loadMore called at CanLoadMore subscribes with the continueCursor
\* of the page delivered last (nextCursor); status is LoadingMore until that
\* subscription delivers; after the delivery results is the previous results
\* followed by the new page's items, and status follows the new page's isDone.
C10_LoadMore ==
    /\ pgHist.op = "loadMore"
       => \E l \in listeners : /\ l.id = pgHist.pending
                               /\ l.args = pgArgs
                               /\ l.cursor = nextCursor
    /\ pgHist.pending # NoOp => Status = "LoadingMore"
    /\ pgHist.op = "lmData"
       => /\ Results = pgHist.prevResults \o pgHist.page.page
          /\ Status = IF pgHist.page.isDone THEN "Exhausted" ELSE "CanLoadMore"

\* C11: status is one of the four values, decided in this order:
\* LoadingFirstPage exactly when the first page is marked loading, else
\* LoadingMore exactly when another page is marked loading, else Exhausted
\* when isDone and CanLoadMore when not.  Without initialData the hook starts
\* in LoadingFirstPage, and once the effect has run status is
\* LoadingFirstPage exactly as long as the first-page subscription of the
\* current args has not delivered data.
C11_Status ==
    /\ Status \in {"LoadingFirstPage", "LoadingMore", "Exhausted", "CanLoadMore"}
    /\ (Status = "LoadingFirstPage") <=> (pagesLoading["initial"] = "true")
    /\ (Status = "LoadingMore")
       <=> /\ pagesLoading["initial"] # "true"
           /\ \E k \in PageKeys \ {"initial"} : pagesLoading[k] = "true"
    /\ (Status = "Exhausted")
       <=> (isDone /\ \A k \in PageKeys : pagesLoading[k] # "true")
    /\ (~HasInitialData /\ isFirstRender /\ ~pgDestroyed)
       => Status = "LoadingFirstPage"
    /\ (~HasInitialData /\ ~pgDirty /\ ~pgDestroyed)
       => ((Status = "LoadingFirstPage") <=> ~pgHist.first)

\* C12: right after the effect has run for a change of args, every
\* subscription made before is unsubscribed and exactly one is registered, for
\* the first page (cursor null) of the new args; the page list and results
\* are empty, nextCursor is null, isDone is false, error is undefined and
\* status is LoadingFirstPage.
C12_ResetOnArgsChange ==
    pgHist.op = "rerun"
    => /\ listeners = {[id |-> subscriptions["initial"], args |-> pgArgs, cursor |-> Null]}
       /\ \A k \in PageKeys \ {"initial"} : subscriptions[k] = NoOp
       /\ pages = <<>>
       /\ Results = <<>>
       /\ nextCursor = Null
       /\ ~isDone
       /\ error = Undefined
       /\ Status = "LoadingFirstPage"

\* initialData is in the page list
HoldsInitialData(os) == \E i \in 1..Len(os) : os[i] = "initialData"

\* C13 as stated: with initialData, from the mount until the first server
\* response results is initialData.page and status is Exhausted if
\* initialData.isDone, else CanLoadMore.
C13_InitialDataOriginal ==
    (HasInitialData /\ pgHist.untouched /\ ~pgDestroyed)
    => /\ Results = initialData.page
       /\ Status = IF initialData.isDone THEN "Exhausted" ELSE "CanLoadMore"

\* C13 amended: with initialData, from the mount until the first server
\* response or change of args, results is initialData.page and status is not
\* LoadingFirstPage: it is LoadingMore while a page asked for by loadMore is
\* marked loading, and else Exhausted if initialData.isDone and CanLoadMore if
\* not.  initialData is used only for the first run: the effect run after a
\* change of args leaves the page list without initialData, and initialData
\* enters the page list in no later step.
C13_InitialData ==
    /\ [](  (HasInitialData /\ pgHist.untouched /\ ~pgDestroyed)
          => /\ Results = initialData.page
             /\ Status = IF \E k \in PageKeys : pagesLoading[k] = "true"
                         THEN "LoadingMore"
                         ELSE IF initialData.isDone THEN "Exhausted"
                         ELSE "CanLoadMore")
    /\ [][ /\ pgHist'.op = "rerun" => ~HoldsInitialData(pageOrigin')
           /\ (HoldsInitialData(pageOrigin') /\ ~isFirstRender)
              => HoldsInitialData(pageOrigin) ]_vars

C13_Witness ==
    /\ HasInitialData /\ pgHist.untouched /\ ~pgDestroyed
    /\ ~isFirstRender
    /\ Status = "LoadingMore"
    /\ Results = initialData.page
    /\ HoldsInitialData(pageOrigin)

\* C14: with initialData, once the first-page subscription (cursor null) of
\* the current args has delivered, the delivered page has taken the place of
\* initialData in the page list, whatever continueCursor it carries: the list
\* does not hold initialData next to a page asked with cursor null.
C14_FirstPageReplacesInitialData ==
    (HasInitialData /\ pgHist.first)
    => ~(/\ HoldsInitialData(pageOrigin)
         /\ \E i \in 1..Len(pageOrigin) : pageOrigin[i] = Null)

\* C15: error is the error the error callback of a page subscription received
\* last since the effect ran: it keeps that value through data pushes and
\* loadMore calls, and is undefined when no error callback fired since the
\* effect ran (at the mount or for a change of args).
C15_ErrorForwarded ==
    error = pgHist.lastError

C15_Witness ==
    /\ pgHist.op = "lmData"
    /\ pgHist.lastError = "ConvexError"
    /\ error = "ConvexError"
    /\ ~pgDestroyed

\* C16: when the client goes on answering every page subscription, with a
\* data callback or an error callback, then as long as the component lives
\* status always leaves LoadingFirstPage and every LoadingMore ends.
C16_LoadingEnds ==
    /\ (Status = "LoadingFirstPage") ~> (Status # "LoadingFirstPage" \/ pgDestroyed)
    /\ (Status = "LoadingMore") ~> (Status # "LoadingMore" \/ pgDestroyed)

\* C20: whenever the page list is not empty, nextCursor is the continueCursor
\* of its last page; and a loadMore called once a page has loaded subscribes
\* with that cursor, for which the hook holds no other subscription.
C20_NextCursorIsLastPage ==
    /\ pages # <<>> => nextCursor = pages[Len(pages)].continueCursor
    /\ (pgHist.op = "loadMore" /\ pages # <<>>)
       => \E l \in listeners :
              /\ l.id = pgHist.pending
              /\ l.cursor = pages[Len(pages)].continueCursor
              /\ \A m \in listeners :
                     (m.args = l.args /\ m.cursor = l.cursor) => m = l

----------------------------------------------------------------------------
(* The component context: properties *)

\* C17: with no client in the context, useConvexClient, useQuery and
\* usePaginatedQuery throw the same error, and the hooks have then made no
\* state and no subscription; with a client in the context useConvexClient
\* returns it, and after setConvexClientContext(c) the context holds c.
C17_NoClientThrows ==
    /\ (call.fn \in {"useConvexClient", "useQuery", "usePaginatedQuery"}
        /\ call.contextBefore = NoClient)
       => /\ call.thrown = NoClientError
          /\ listeners = {}
          /\ QUnused
          /\ PgUnused
    /\ (call.fn = "useConvexClient" /\ call.contextBefore # NoClient)
       => /\ call.thrown = NoError
          /\ call.returned = context
    /\ call.fn = "setConvexClientContext" => context = call.returned

C17_Witness ==
    /\ call.fn = "useQuery"
    /\ call.thrown = NoClientError
    /\ call.clientsBefore = 0
    /\ context = NoClient
    /\ destroyed

====
